---------------------------- MODULE Spec2Model ----------------------------
(***************************************************************************)
(* A model of the pitch adaptor and of the padding mask of the TTS         *)
(* acoustic model, of the discriminator shapes and the log-STFT-magnitude  *)
(* loss of the vocoder, and of the data pipeline: the attention prior,     *)
(* normalize_pitch, collate_fn, the LIBRITTS_R constructor,                *)
(* load_libritts_item and __getitem__ with its caches.                     *)
(*                                                                         *)
(* Tensors of shape [batch, time] are flattened to sequences of elements;  *)
(* the adaptor's own operations (bucketize, embedding lookup, addition)    *)
(* are elementwise.  Pitch values are exact rationals: a boundary of the   *)
(* bin table is num[i] / den, every other pitch value is an integer.       *)
(* Floating point rounding of torch.linspace is not modelled.              *)
(***************************************************************************)
EXTENDS Integers, Sequences, FiniteSets, TLC

VARIABLES
    n_bins,          \* model_config.variance_adaptor.n_bins
    stats,           \* stats.json "pitch"[:2] read by the constructor
    pitch_bins,      \* the registered buffer "pitch_bins"
    pitch_embedding, \* the weight rows of Embedding(n_bins, n_hidden)
    call,            \* the last PitchAdaptor call: its arguments and results
    checkpoint,      \* the saved state_dict, or NoCheckpoint
    origin,          \* the bins of the model the checkpoint was saved from
    forward_train_params, \* src_lens and mel_lens of the batch
    masks,           \* what init_mask_input_embeddings_encoding_attn_mask returned
    resolutions,     \* the fft sizes of the configured resolutions, in order
    disc,            \* what MultiResolutionDiscriminator.forward returned
    loss,            \* the last LogSTFTMagnitudeLoss call: arguments and result
    prior,           \* the last attention prior computed by preprocessing
    data,            \* the samples fetched for the batch being collated
    collated,        \* what collate_fn returned for data
    normalized,      \* the last normalize_pitch call: argument and result
    fs,              \* the dataset path and the archive on disk
    libritts_r,      \* the last LIBRITTS_R constructor call and its outcome
    transcripts,     \* the text files of one utterance and its .trans.tsv row
    item,            \* what the last load_libritts_item call returned
    acoustic_dataset, \* LibriTTSDatasetAcoustic: its rows and cache flags
    cache_dir,       \* the cache files <idx>.pt the workers share
    workers,         \* each worker's __getitem__ call and its memory_cache
    calls            \* what the calls so far returned and preprocessed

vars == <<n_bins, stats, pitch_bins, pitch_embedding, call, checkpoint,
          origin, forward_train_params, masks, resolutions, disc, loss,
          prior, data, collated, normalized, fs, libritts_r, transcripts,
          item, acoustic_dataset, cache_dir, workers, calls>>

pitchVars == <<n_bins, stats, pitch_bins, pitch_embedding, call>>
ckptVars == <<checkpoint, origin>>
maskVars == <<forward_train_params, masks>>
vocoderVars == <<resolutions, disc, loss>>
itemVars == <<transcripts, item>>
cacheVars == <<acoustic_dataset, cache_dir, workers, calls>>
fsVars == <<fs, libritts_r, itemVars, cacheVars>>
dataVars == <<prior, data, collated, normalized, fsVars>>

---------------------------------------------------------------------------
(* Bounds *)

\* n_bins ranges over 1..MaxBins
MaxBins == 4
\* pitch_min and pitch_max of stats.json range over 0..MaxPitch
MaxPitch == 2
\* batch size of forward_train_params ranges over 1..MaxBatch
MaxBatch == 2
\* src_lens and mel_lens entries range over 1..MaxSeq
MaxSeq == 3

\* the time positions of the sample a PitchAdaptor call works on: its
\* tensors have shape [1, 2]
Positions == {1, 2}
\* pitch values fed to the adaptor: below pitch_min, on and between the
\* boundaries, above pitch_max
PitchVals == (0 - 1)..(MaxPitch + 1)
\* the control multipliers of inference
Controls == {0 - 1, 0, 1, 2}

---------------------------------------------------------------------------
(* Tensor helpers *)

Max(a, b) == IF a >= b THEN a ELSE b

RECURSIVE SeqMax(_)
SeqMax(s) == IF Len(s) = 1 THEN s[1] ELSE Max(s[1], SeqMax(Tail(s)))

\* elementwise a + b
TensorAdd(a, b) == [i \in DOMAIN a |-> a[i] + b[i]]

\* elementwise a * c
TensorScale(a, c) == [i \in DOMAIN a |-> a[i] * c]

---------------------------------------------------------------------------
(* PitchAdaptor.__init__ *)

\* torch.linspace(start, end, steps) as exact rationals num[i] / den
Linspace(start, end, steps) ==
    IF steps = 0 THEN [num |-> <<>>, den |-> 1]
    ELSE IF steps = 1 THEN [num |-> <<start>>, den |-> 1]
    ELSE [num |-> [i \in 1..steps |->
                      start * (steps - 1) + (i - 1) * (end - start)],
          den |-> steps - 1]

\* a constructor that builds n_bins boundaries instead of n_bins - 1
PitchBinsOfOneMore(pitch_min, pitch_max, n) ==
    Linspace(pitch_min, pitch_max, n)

\* the buffer the constructor registers
PitchBinsOf(pitch_min, pitch_max, n) ==
    Linspace(pitch_min, pitch_max, n - 1)

\* an embedding table built with one row too few
EmbeddingInitsOneLess(n) ==
    {[b \in 0..(n - 2) |-> b + 1], [b \in 0..(n - 2) |-> n - b]}

\* the weights an Embedding(n, 1) may start from
EmbeddingInits(n) ==
    {[b \in 0..(n - 1) |-> b + 1], [b \in 0..(n - 1) |-> n - b]}

NoCall ==
    [op |-> "none", x |-> <<>>, target |-> <<>>, mask |-> <<>>,
     use_ground_truth |-> FALSE, control |-> 1, raw |-> <<>>,
     prediction |-> <<>>, bucket_true |-> <<>>, bucket_pred |-> <<>>,
     embedding_true |-> <<>>, embedding_pred |-> <<>>, out |-> <<>>,
     x_after |-> <<>>, error |-> "none"]

NoCheckpoint == [saved |-> FALSE]

\* the models PitchAdaptor(model_config, data_path) may construct for n_bins
\* = n and the stats st of data_path
Construct(n, st) ==
    {[n_bins |-> n, stats |-> st,
      pitch_bins |-> PitchBinsOf(st.pitch_min, st.pitch_max, n),
      pitch_embedding |-> w] : w \in EmbeddingInits(n)}

StatsSet ==
    {[pitch_min |-> a, pitch_max |-> b] :
        a \in 0..MaxPitch, b \in 0..MaxPitch}

ValidStats == {st \in StatsSet : st.pitch_min <= st.pitch_max}

---------------------------------------------------------------------------
(* Bucketization and embedding lookup *)

\* the comparison of the search reversed
BelowReversed(bins, i, v) == bins.num[i] > v * bins.den

\* whether boundary i of bins lies strictly below the value v
Below(bins, i, v) == bins.num[i] < v * bins.den

\* torch.bucketize(v, boundaries, right=True): the first index whose
\* boundary is greater than v
BucketizeRight(v, bins) ==
    CHOOSE k \in 0..Len(bins.num) :
        /\ \A j \in 1..k : bins.num[j] <= v * bins.den
        /\ k = Len(bins.num) \/ bins.num[k + 1] > v * bins.den

\* torch.bucketize(v, boundaries) with the default right=False: the first
\* index whose boundary is greater than or equal to v (a lower bound)
Bucketize(v, bins) ==
    CHOOSE k \in 0..Len(bins.num) :
        /\ \A j \in 1..k : Below(bins, j, v)
        /\ k = Len(bins.num) \/ ~Below(bins, k + 1, v)

BucketizeTensor(t, bins) == [i \in DOMAIN t |-> Bucketize(t[i], bins)]

\* whether every index of idx addresses a row of the embedding table
RowsExist(idx) == \A i \in DOMAIN idx : idx[i] \in DOMAIN pitch_embedding

\* self.pitch_embedding(indices): the rows the indices address
Embed(idx) == [i \in DOMAIN idx |-> pitch_embedding[idx[i]]]

---------------------------------------------------------------------------
(* The variance predictor and the arguments of a call *)

\* the mask row of a sample of length l padded to the positions
MaskOfLength(l) == [t \in Positions |-> t > l]

Masks == {MaskOfLength(l) : l \in Positions}

\* the hidden states fed to the adaptor: all zero, and a ramp
HiddenStates == {[t \in Positions |-> 0], [t \in Positions |-> t]}

PitchTensors == [Positions -> PitchVals]

\* a predictor whose output is not multiplied by the mask
PredictorOutputsUnmasked(x, mask) == PitchTensors

\* self.pitch_predictor(x, mask): whatever the network computes, with the
\* masked positions zeroed
PredictorOutputs(x, mask) ==
    {p \in PitchTensors : \A t \in Positions : mask[t] => p[t] = 0}

---------------------------------------------------------------------------
(* PitchAdaptor operations.  Each returns the record of the call: the      *)
(* arguments, the predictor's output raw, and what the method returns.     *)

IndexError(c) == [c EXCEPT !.error = "IndexError"]

\* get_pitch_embedding_train
GetPitchEmbeddingTrain(x, target, mask, raw) ==
    LET bucket_true == BucketizeTensor(target, pitch_bins)
        bucket_pred == BucketizeTensor(raw, pitch_bins)
        c == [NoCall EXCEPT !.op = "get_pitch_embedding_train",
                            !.x = x, !.target = target, !.mask = mask,
                            !.raw = raw, !.x_after = x]
    IN  IF ~RowsExist(bucket_true) \/ ~RowsExist(bucket_pred)
        THEN IndexError(c)
        ELSE [c EXCEPT !.prediction = raw,
                       !.bucket_true = bucket_true,
                       !.bucket_pred = bucket_pred,
                       !.embedding_true = Embed(bucket_true),
                       !.embedding_pred = Embed(bucket_pred)]

\* get_pitch_embedding that never applies control
GetPitchEmbeddingNoControl(x, mask, control, raw) ==
    LET bucket_pred == BucketizeTensor(raw, pitch_bins)
        c == [NoCall EXCEPT !.op = "get_pitch_embedding",
                            !.x = x, !.mask = mask, !.control = control,
                            !.raw = raw, !.x_after = x]
    IN  IF ~RowsExist(bucket_pred)
        THEN IndexError(c)
        ELSE [c EXCEPT !.prediction = raw,
                       !.bucket_pred = bucket_pred,
                       !.embedding_pred = Embed(bucket_pred)]

\* get_pitch_embedding adding control to the prediction
GetPitchEmbeddingShifted(x, mask, control, raw) ==
    LET prediction == [t \in DOMAIN raw |-> raw[t] + control]
        bucket_pred == BucketizeTensor(prediction, pitch_bins)
        c == [NoCall EXCEPT !.op = "get_pitch_embedding",
                            !.x = x, !.mask = mask, !.control = control,
                            !.raw = raw, !.x_after = x]
    IN  IF ~RowsExist(bucket_pred)
        THEN IndexError(c)
        ELSE [c EXCEPT !.prediction = prediction,
                       !.bucket_pred = bucket_pred,
                       !.embedding_pred = Embed(bucket_pred)]

\* get_pitch_embedding
GetPitchEmbedding(x, mask, control, raw) ==
    LET prediction == TensorScale(raw, control)
        bucket_pred == BucketizeTensor(prediction, pitch_bins)
        c == [NoCall EXCEPT !.op = "get_pitch_embedding",
                            !.x = x, !.mask = mask, !.control = control,
                            !.raw = raw, !.x_after = x]
    IN  IF ~RowsExist(bucket_pred)
        THEN IndexError(c)
        ELSE [c EXCEPT !.prediction = prediction,
                       !.bucket_pred = bucket_pred,
                       !.embedding_pred = Embed(bucket_pred)]

\* add_pitch_train with the two branches of use_ground_truth exchanged
AddPitchTrainSwapped(x, pitch_target, src_mask, use_ground_truth, raw) ==
    LET e == GetPitchEmbeddingTrain(x, pitch_target, src_mask, raw)
        c == [e EXCEPT !.op = "add_pitch_train",
                       !.use_ground_truth = use_ground_truth]
    IN  IF e.error # "none" THEN c
        ELSE IF use_ground_truth
        THEN [c EXCEPT !.out = TensorAdd(x, e.embedding_pred)]
        ELSE [c EXCEPT !.out = TensorAdd(x, e.embedding_true)]

\* add_pitch_train adding both embeddings
AddPitchTrainBoth(x, pitch_target, src_mask, use_ground_truth, raw) ==
    LET e == GetPitchEmbeddingTrain(x, pitch_target, src_mask, raw)
        c == [e EXCEPT !.op = "add_pitch_train",
                       !.use_ground_truth = use_ground_truth]
    IN  IF e.error # "none" THEN c
        ELSE [c EXCEPT !.out = TensorAdd(TensorAdd(x, e.embedding_true),
                                         e.embedding_pred)]

\* add_pitch_train
AddPitchTrain(x, pitch_target, src_mask, use_ground_truth, raw) ==
    LET e == GetPitchEmbeddingTrain(x, pitch_target, src_mask, raw)
        c == [e EXCEPT !.op = "add_pitch_train",
                       !.use_ground_truth = use_ground_truth]
    IN  IF e.error # "none" THEN c
        ELSE IF use_ground_truth
        THEN [c EXCEPT !.out = TensorAdd(x, e.embedding_true)]
        ELSE [c EXCEPT !.out = TensorAdd(x, e.embedding_pred)]

\* add_pitch written with an in-place addition (x += pitch_embedding_pred)
AddPitchInPlace(x, src_mask, control, raw) ==
    LET e == GetPitchEmbedding(x, src_mask, control, raw)
        c == [e EXCEPT !.op = "add_pitch"]
    IN  IF e.error # "none" THEN c
        ELSE [c EXCEPT !.out = TensorAdd(x, e.embedding_pred),
                       !.x_after = TensorAdd(x, e.embedding_pred)]

\* add_pitch
AddPitch(x, src_mask, control, raw) ==
    LET e == GetPitchEmbedding(x, src_mask, control, raw)
        c == [e EXCEPT !.op = "add_pitch"]
    IN  IF e.error # "none" THEN c
        ELSE [c EXCEPT !.out = TensorAdd(x, e.embedding_pred)]

---------------------------------------------------------------------------
(* Actions of the pitch adaptor *)

CallGetPitchEmbeddingTrain ==
    /\ call.op = "none"
    /\ \E x \in HiddenStates, target \in PitchTensors, mask \in Masks :
         \E raw \in PredictorOutputs(x, mask) :
            call' = GetPitchEmbeddingTrain(x, target, mask, raw)
    /\ UNCHANGED <<n_bins, stats, pitch_bins, pitch_embedding>>
    /\ UNCHANGED <<ckptVars, maskVars, vocoderVars, dataVars>>

CallGetPitchEmbedding ==
    /\ call.op = "none"
    /\ \E x \in HiddenStates, mask \in Masks, control \in Controls :
         \E raw \in PredictorOutputs(x, mask) :
            call' = GetPitchEmbedding(x, mask, control, raw)
    /\ UNCHANGED <<n_bins, stats, pitch_bins, pitch_embedding>>
    /\ UNCHANGED <<ckptVars, maskVars, vocoderVars, dataVars>>

CallAddPitchTrain ==
    /\ call.op = "none"
    /\ \E x \in HiddenStates, target \in PitchTensors, mask \in Masks,
          use_ground_truth \in BOOLEAN :
         \E raw \in PredictorOutputs(x, mask) :
            call' = AddPitchTrain(x, target, mask, use_ground_truth, raw)
    /\ UNCHANGED <<n_bins, stats, pitch_bins, pitch_embedding>>
    /\ UNCHANGED <<ckptVars, maskVars, vocoderVars, dataVars>>

CallAddPitch ==
    /\ call.op = "none"
    /\ \E x \in HiddenStates, mask \in Masks, control \in Controls :
         \E raw \in PredictorOutputs(x, mask) :
            call' = AddPitch(x, mask, control, raw)
    /\ UNCHANGED <<n_bins, stats, pitch_bins, pitch_embedding>>
    /\ UNCHANGED <<ckptVars, maskVars, vocoderVars, dataVars>>

\* the forward pass ends: what the call returned is consumed and dropped
EndForward ==
    /\ call.op # "none"
    /\ call' = NoCall
    /\ UNCHANGED <<n_bins, stats, pitch_bins, pitch_embedding>>
    /\ UNCHANGED <<ckptVars, maskVars, vocoderVars, dataVars>>

---------------------------------------------------------------------------
(* Checkpoints: the buffer pitch_bins is persistent, so it is part of the   *)
(* module's state_dict with the embedding weights.                           *)

\* the state_dict of a module whose buffer is registered persistent=False
StateDictNoBuffer == [pitch_embedding |-> pitch_embedding]

\* the adaptor's entries of state_dict()
StateDict == [pitch_bins |-> pitch_bins, pitch_embedding |-> pitch_embedding]

\* trainer checkpointing: the model's state_dict is written to the file
SaveCheckpoint ==
    /\ call.op = "none"
    /\ checkpoint' = [saved |-> TRUE, state_dict |-> StateDict]
    /\ origin' = [saved |-> TRUE, n_bins |-> n_bins, stats |-> stats,
                  pitch_bins |-> pitch_bins, loaded |-> FALSE]
    /\ UNCHANGED <<pitchVars, maskVars, vocoderVars, dataVars>>

\* load_from_checkpoint, first half: the module is constructed again, from
\* the stats.json of the data path in use now
Reconstruct ==
    /\ call.op = "none"
    /\ \E n \in 1..MaxBins, st \in ValidStats :
         \E m \in Construct(n, st) :
            /\ n_bins' = m.n_bins
            /\ stats' = m.stats
            /\ pitch_bins' = m.pitch_bins
            /\ pitch_embedding' = m.pitch_embedding
    /\ origin' = IF origin.saved THEN [origin EXCEPT !.loaded = FALSE]
                 ELSE origin
    /\ UNCHANGED <<call, checkpoint, maskVars, vocoderVars, dataVars>>

\* whether the entry key of the state_dict sd has the shape of the module's
ShapeMatches(sd, key) ==
    IF key = "pitch_bins"
    THEN Len(sd.pitch_bins.num) = Len(pitch_bins.num)
    ELSE DOMAIN sd.pitch_embedding = DOMAIN pitch_embedding

\* load_from_checkpoint, second half: load_state_dict(state_dict, strict).
\* An entry is copied when it is present with the module's shape; a shape
\* mismatch, and with strict a missing entry, is a RuntimeError.
LoadStateDict(strict) ==
    /\ call.op = "none"
    /\ checkpoint.saved
    /\ LET sd == checkpoint.state_dict
           present(key) == key \in DOMAIN sd
           copied(key) == present(key) /\ ShapeMatches(sd, key)
           raised == \/ \E key \in DOMAIN sd : ~ShapeMatches(sd, key)
                     \/ strict /\ \E key \in DOMAIN StateDict : ~present(key)
       IN  /\ pitch_bins' = IF copied("pitch_bins")
                            THEN sd.pitch_bins ELSE pitch_bins
           /\ pitch_embedding' = IF copied("pitch_embedding")
                                 THEN sd.pitch_embedding ELSE pitch_embedding
           /\ origin' = [origin EXCEPT !.loaded = ~raised]
    /\ UNCHANGED <<n_bins, stats, call, checkpoint, maskVars, vocoderVars, dataVars>>

---------------------------------------------------------------------------
(* The padding mask *)

\* tools.get_mask_from_lengths: row i is true from position lengths[i] on
\* (positions count from 0)
GetMaskFromLengths(lengths) ==
    [i \in 1..Len(lengths) |->
        [t \in 0..(SeqMax(lengths) - 1) |-> t >= lengths[i]]]

\* the mask built from the mel lengths of the batch
SrcMaskFromMelLens(params) == GetMaskFromLengths(params.mel_lens)

\* src_mask of init_mask_input_embeddings_encoding_attn_mask
SrcMask(params) == GetMaskFromLengths(params.src_lens)

\* attn_mask = src_mask.view((shape[0], 1, 1, shape[1])): the same entries
AttnMaskShape(src_mask) ==
    <<Len(src_mask), 1, 1, Cardinality(DOMAIN src_mask[1])>>

NoBatch == [src_lens |-> <<>>, mel_lens |-> <<>>]

NoMasks == [done |-> FALSE]

Lengths(b) == [1..b -> 1..MaxSeq]

\* the batches of forward_train_params
Batches ==
    UNION {{[src_lens |-> s, mel_lens |-> m] :
              s \in Lengths(b), m \in Lengths(b)} : b \in 1..MaxBatch}

InitMaskInputEmbeddingsEncodingAttnMask ==
    /\ ~masks.done
    /\ LET src_mask == SrcMask(forward_train_params)
       IN  masks' = [done |-> TRUE, src_mask |-> src_mask,
                     attn_mask_shape |-> AttnMaskShape(src_mask)]
    /\ UNCHANGED <<forward_train_params, pitchVars, ckptVars, vocoderVars, dataVars>>

\* the next batch of forward parameters arrives
NextBatch ==
    /\ masks.done
    /\ forward_train_params' \in Batches
    /\ masks' = NoMasks
    /\ UNCHANGED <<pitchVars, ckptVars, vocoderVars, dataVars>>

---------------------------------------------------------------------------
(* The multi-resolution discriminator of the vocoder.  A tensor is         *)
(* modelled by its shape; only the last dimension of a feature map (the    *)
(* frequency bins left after the layer) changes from layer to layer.       *)

\* the ensemble holds 1..MaxResolutions resolutions
MaxResolutions == 3
\* fft_size of a resolution is 2^q with q in MinFftPower..MaxFftPower
MaxFftPower == 11
\* the smallest fft_size, 2^4: below it the last layers have fewer than two
\* frequency bins left
MinFftPower == 4
\* the waveform batch holds 1..MaxAudioBatch samples
MaxAudioBatch == 2

FftSizes == {2^q : q \in MinFftPower..MaxFftPower}

\* the fft sizes of the default configuration, in configured order
DefaultResolutions == <<1024, 2048, 512>>

ResolutionLists ==
    UNION {[1..n -> FftSizes] : n \in 1..MaxResolutions}

\* the frequency bins of the magnitude spectrogram of one resolution
FreqBins(fft_size) == fft_size \div 2 + 1

\* a convolution that leaves the padding out
ConvOutNoPadding(l, kernel_size, stride, padding) ==
    (l - kernel_size) \div stride + 1

\* the output length of a convolution along one dimension
ConvOut(l, kernel_size, stride, padding) ==
    (l + 2 * padding - kernel_size) \div stride + 1

\* the convolutions of one sub-discriminator along the frequency
\* dimension: the first keeps the length, three halve it, the last keeps it
Convs ==
    <<[kernel_size |-> 9, stride |-> 1, padding |-> 4],
      [kernel_size |-> 9, stride |-> 2, padding |-> 4],
      [kernel_size |-> 9, stride |-> 2, padding |-> 4],
      [kernel_size |-> 9, stride |-> 2, padding |-> 4],
      [kernel_size |-> 3, stride |-> 1, padding |-> 1]>>

ConvPost == [kernel_size |-> 3, stride |-> 1, padding |-> 1]

\* the last dimensions of the feature maps of the first n convolutions
RECURSIVE FeatureMaps(_, _)
FeatureMaps(l, n) ==
    IF n = 0 THEN <<>>
    ELSE LET before == FeatureMaps(l, n - 1)
             input == IF n = 1 THEN l ELSE before[n - 1]
             c == Convs[n]
         IN  Append(before,
                    ConvOut(input, c.kernel_size, c.stride, c.padding))

\* one sub-discriminator: the feature maps and the flattened score
DiscriminatorR(fft_size, batch) ==
    LET fmap == FeatureMaps(FreqBins(fft_size), Len(Convs))
        post == ConvOut(fmap[Len(fmap)], ConvPost.kernel_size,
                        ConvPost.stride, ConvPost.padding)
    IN  [feature_maps |-> fmap, score |-> <<batch, post>>]

\* the ensemble: one (feature_maps, score) entry per resolution, in order
MultiResolutionDiscriminator(res, batch) ==
    [k \in 1..Len(res) |-> DiscriminatorR(res[k], batch)]

NoDisc == [done |-> FALSE]

\* MultiResolutionDiscriminator.forward on a batch of waveforms
DiscriminatorForward ==
    /\ \E batch \in 1..MaxAudioBatch :
          disc' = [done |-> TRUE, batch |-> batch,
                   out |-> MultiResolutionDiscriminator(resolutions, batch)]
    /\ UNCHANGED <<resolutions, loss, pitchVars, ckptVars, maskVars, dataVars>>

\* the feature maps are consumed by the losses and discarded
EndDiscriminator ==
    /\ disc.done
    /\ disc' = NoDisc
    /\ UNCHANGED <<resolutions, loss, pitchVars, ckptVars, maskVars, dataVars>>

---------------------------------------------------------------------------
(* The log-STFT-magnitude loss of the vocoder.  Logarithms are fixed-point *)
(* numbers: the integer Ln(m) stands for Ln(m) / LogScale, and is within   *)
(* 10^-5 of the natural logarithm of m for the magnitudes used here.       *)

\* magnitude vectors hold 1..MaxMagLen elements
MaxMagLen == 2
\* each a magnitude in 1..MaxMag
MaxMag == 4

LogScale == 10^7

\* the sum of z^(2j+1) / (2j+1) from term t = z^(2j+1) on, z = num / den
RECURSIVE AtanhSeries(_, _, _, _)
AtanhSeries(t, num, den, j) ==
    IF t = 0 THEN 0
    ELSE t \div (2 * j + 1)
         + AtanhSeries((((t * num) \div den) * num) \div den, num, den, j + 1)

\* atanh(num / den), for 0 <= num / den <= 1/3
Atanh(num, den) == AtanhSeries((LogScale * num) \div den, num, den, 0)

\* ln 2 = 2 atanh(1/3)
Ln2 == 2 * Atanh(1, 3)

RECURSIVE Log2Floor(_)
Log2Floor(m) == IF m < 2 THEN 0 ELSE 1 + Log2Floor(m \div 2)

\* torch.log of a positive magnitude m = 2^e * r, 1 <= r < 2:
\* ln m = e ln 2 + 2 atanh((r - 1) / (r + 1))
Ln(m) ==
    LET e == Log2Floor(m)
    IN  e * Ln2 + 2 * Atanh(m - 2^e, m + 2^e)

Abs(a) == IF a >= 0 THEN a ELSE 0 - a

RECURSIVE SeqSum(_)
SeqSum(s) == IF Len(s) = 0 THEN 0 ELSE s[1] + SeqSum(Tail(s))

\* the loss without the absolute value: the mean of log y - log x
LogSTFTMagnitudeLossSigned(x_mag, y_mag) ==
    LET d == [i \in 1..Len(x_mag) |-> Ln(y_mag[i]) - Ln(x_mag[i])]
    IN  [value |-> SeqSum(d) \div Len(d), shape |-> <<>>]

\* the loss reduced by a sum in place of the mean
LogSTFTMagnitudeLossSum(x_mag, y_mag) ==
    LET d == [i \in 1..Len(x_mag) |-> Abs(Ln(y_mag[i]) - Ln(x_mag[i]))]
    IN  [value |-> SeqSum(d), shape |-> <<>>]

\* LogSTFTMagnitudeLoss.forward: the mean over all elements of
\* |log(y_mag) - log(x_mag)|, a tensor of shape []
LogSTFTMagnitudeLoss(x_mag, y_mag) ==
    LET d == [i \in 1..Len(x_mag) |-> Abs(Ln(y_mag[i]) - Ln(x_mag[i]))]
    IN  [value |-> SeqSum(d) \div Len(d), shape |-> <<>>]

\* the magnitudes of test_log_stft_magnitude_loss_nonzero
TestMagnitudes ==
    [x_mag |-> <<1, 4, 9, 64>>, y_mag |-> <<1, 8, 16, 256>>]

MagnitudeVectors(n) == [1..n -> 1..MaxMag]

\* pairs of magnitude tensors of the same shape
MagnitudePairs ==
    {TestMagnitudes} \cup
    UNION {{[x_mag |-> x, y_mag |-> y] :
               x \in MagnitudeVectors(n), y \in MagnitudeVectors(n)} :
           n \in 1..MaxMagLen}

NoLoss == [done |-> FALSE]

\* loss_fn(x_mag, y_mag)
LogSTFTMagnitudeLossForward ==
    /\ ~loss.done
    /\ \E m \in MagnitudePairs :
          LET l == LogSTFTMagnitudeLoss(m.x_mag, m.y_mag)
          IN  loss' = [done |-> TRUE, x_mag |-> m.x_mag, y_mag |-> m.y_mag,
                       value |-> l.value, shape |-> l.shape]
    /\ UNCHANGED <<resolutions, disc, pitchVars, ckptVars, maskVars, dataVars>>

\* the loss value is consumed by the optimizer step
EndLoss ==
    /\ loss.done
    /\ loss' = NoLoss
    /\ UNCHANGED <<resolutions, disc, pitchVars, ckptVars, maskVars, dataVars>>

IdleVocoder ==
    /\ resolutions = <<>>
    /\ disc = NoDisc
    /\ loss = NoLoss

---------------------------------------------------------------------------
(* The attention prior of preprocessing.  A probability is an exact        *)
(* rational [num, den]; a matrix is a sequence of rows.                    *)

\* phoneme_count ranges over 1..MaxPhonemes
MaxPhonemes == 7
\* mel_count ranges over 1..MaxMel
MaxMel == 8

\* a (a + 1) ... (a + k - 1)
RECURSIVE Rising(_, _)
Rising(a, k) == IF k = 0 THEN 1 ELSE Rising(a, k - 1) * (a + k - 1)

RECURSIVE Binomial(_, _)
Binomial(n, k) ==
    IF k = 0 \/ k = n THEN 1
    ELSE Binomial(n - 1, k - 1) + Binomial(n - 1, k)

\* the beta-binomial probability of k successes in n trials with
\* parameters a and b is BetaBinomWeight(n, a, b, k) / Rising(a + b, n)
BetaBinomWeight(n, a, b, k) ==
    Binomial(n, k) * Rising(a, k) * Rising(b, n - k)

\* the prior with the probabilities of 0..P-1 left as they are, the
\* probability of P successes missing from every row
BetaBinomialPriorDistributionUnnormalized(phoneme_count, mel_count) ==
    [m \in 1..mel_count |->
        LET a == m
            b == mel_count + 1 - m
        IN  [k \in 1..phoneme_count |->
                [num |-> BetaBinomWeight(phoneme_count, a, b, k - 1),
                 den |-> Rising(a + b, phoneme_count)]]]

\* beta_binomial_prior_distribution(phoneme_count, mel_count): row m holds
\* the beta-binomial probabilities of the phoneme indices 0..P-1 for mel
\* frame m, renormalized to sum to 1
BetaBinomialPriorDistribution(phoneme_count, mel_count) ==
    [m \in 1..mel_count |->
        LET a == m
            b == mel_count + 1 - m
            w == [k \in 1..phoneme_count |->
                     BetaBinomWeight(phoneme_count, a, b, k - 1)]
        IN  [k \in 1..phoneme_count |-> [num |-> w[k], den |-> SeqSum(w)]]]

Shape(matrix) == <<Len(matrix), Len(matrix[1])>>

Transpose(matrix) ==
    [j \in 1..Len(matrix[1]) |-> [i \in 1..Len(matrix) |-> matrix[i][j]]]

\* a sample whose attn_prior is the prior as the function returns it
AttnPriorAsReturned(phones, mel_frames) ==
    BetaBinomialPriorDistribution(phones, mel_frames)

\* the attn_prior of a preprocessed sample with the given number of
\* phonemes and mel frames: one row per phoneme
AttnPrior(phones, mel_frames) ==
    Transpose(BetaBinomialPriorDistribution(phones, mel_frames))

NoPrior == [op |-> "none"]

\* a call of beta_binomial_prior_distribution
CallBetaBinomialPriorDistribution ==
    /\ prior.op = "none"
    /\ \E P \in 1..MaxPhonemes, M \in 1..MaxMel :
          prior' = [op |-> "beta_binomial_prior_distribution",
                    phoneme_count |-> P, mel_count |-> M,
                    out |-> BetaBinomialPriorDistribution(P, M)]
    /\ UNCHANGED <<data, collated, normalized>>
    /\ UNCHANGED <<pitchVars, ckptVars, maskVars, vocoderVars, fsVars>>

\* PreprocessLibriTTS.acoustic on a row with P phonemes and M mel frames
Acoustic ==
    /\ prior.op = "none"
    /\ \E P \in 1..MaxPhonemes, M \in 1..MaxMel :
          prior' = [op |-> "acoustic",
                    phoneme_count |-> P, mel_count |-> M,
                    out |-> AttnPrior(P, M)]
    /\ UNCHANGED <<data, collated, normalized>>
    /\ UNCHANGED <<pitchVars, ckptVars, maskVars, vocoderVars, fsVars>>

\* the prior is stored with the sample; the next row is preprocessed
EndPreprocess ==
    /\ prior.op # "none"
    /\ prior' = NoPrior
    /\ UNCHANGED <<data, collated, normalized>>
    /\ UNCHANGED <<pitchVars, ckptVars, maskVars, vocoderVars, fsVars>>

---------------------------------------------------------------------------
(* LibriTTSDatasetAcoustic: normalize_pitch and collate_fn.  A 1-D tensor  *)
(* is a sequence of numbers, a batch tensor a sequence with one entry per  *)
(* sample; mel and wav tensors are modelled by their shapes.  The mean is  *)
(* an exact rational; the standard deviation is given by its square.       *)

\* a batch handed to collate_fn and a list handed to normalize_pitch hold
\* 1..MaxSamples entries
MaxSamples == 2
\* a sample has 1..MaxTextLen tokens
MaxTextLen == 2
\* a sample has 1..MaxFrames mel frames and pitch values
MaxFrames == 2

\* the pitch values of the samples
PitchSamples == {1, 3}

\* the pitches of test_normalize_pitch
TestPitches == <<<<100, 200, 300>>, <<150, 250, 350>>>>

Min(a, b) == IF a <= b THEN a ELSE b

RECURSIVE SeqMin(_)
SeqMin(s) == IF Len(s) = 1 THEN s[1] ELSE Min(s[1], SeqMin(Tail(s)))

\* torch.concatenate of a list of 1-D tensors
RECURSIVE Concatenate(_)
Concatenate(tensors) ==
    IF Len(tensors) = 0 THEN <<>>
    ELSE tensors[1] \o Concatenate(Tail(tensors))

RECURSIVE GCD(_, _)
GCD(a, b) == IF b = 0 THEN a ELSE GCD(b, a % b)

\* the rational num / den in lowest terms, num >= 0 and den > 0
Rational(num, den) ==
    [num |-> num \div GCD(num, den), den |-> den \div GCD(num, den)]

Squares(s) == [i \in 1..Len(s) |-> s[i] * s[i]]

\* torch.std with the unbiased estimator: nan for a single value, else the
\* root of (N sum(x^2) - sum(x)^2) / (N (N - 1))
Std(pitches_t) ==
    LET N == Len(pitches_t)
        S == SeqSum(pitches_t)
    IN  IF N = 1 THEN [nan |-> TRUE]
        ELSE [nan |-> FALSE,
              sq |-> Rational(N * SeqSum(Squares(pitches_t)) - S * S,
                              N * (N - 1))]

\* the standard deviation of the population, dividing by N
StdBiased(pitches_t) ==
    LET N == Len(pitches_t)
        S == SeqSum(pitches_t)
    IN  [nan |-> FALSE,
         sq |-> Rational(N * SeqSum(Squares(pitches_t)) - S * S, N * N)]

\* normalize_pitch with the biased standard deviation
NormalizePitchBiased(pitches) ==
    LET pitches_t == Concatenate(pitches)
    IN  <<SeqMin(pitches_t), SeqMax(pitches_t),
          [num |-> SeqSum(pitches_t), den |-> Len(pitches_t)],
          StdBiased(pitches_t)>>

\* normalize_pitch: (min_value, max_value, mean, std)
NormalizePitch(pitches) ==
    LET pitches_t == Concatenate(pitches)
        min_value == SeqMin(pitches_t)
        max_value == SeqMax(pitches_t)
        mean == [num |-> SeqSum(pitches_t), den |-> Len(pitches_t)]
        std == Std(pitches_t)
    IN  <<min_value, max_value, mean, std>>

PitchTensorsOfLength(n) == [1..n -> PitchSamples]

PitchTensorSet == UNION {PitchTensorsOfLength(n) : n \in 1..MaxFrames}

\* the lists normalize_pitch is called on
PitchLists ==
    {TestPitches} \cup UNION {[1..n -> PitchTensorSet] : n \in 1..MaxSamples}

NoNormalized == [done |-> FALSE]

NoData == <<>>

NoCollated == [done |-> FALSE]

\* self.dataset.normalize_pitch(pitches)
CallNormalizePitch ==
    /\ ~normalized.done
    /\ data = NoData
    /\ \E pitches \in PitchLists :
          normalized' = [done |-> TRUE, pitches |-> pitches,
                         out |-> NormalizePitch(pitches)]
    /\ UNCHANGED <<data, collated, prior>>
    /\ UNCHANGED <<pitchVars, ckptVars, maskVars, vocoderVars, fsVars>>

EndNormalizePitch ==
    /\ normalized.done
    /\ normalized' = NoNormalized
    /\ UNCHANGED <<data, collated, prior>>
    /\ UNCHANGED <<pitchVars, ckptVars, maskVars, vocoderVars, fsVars>>

\* the sample __getitem__ returns for a row with the given tokens and
\* pitch: the mel has as many frames as the pitch has values
Sample(text_len, pitch) ==
    [id |-> <<text_len, pitch>>,
     wav |-> <<1, Len(pitch)>>,
     mel |-> [frames |-> Len(pitch)],
     pitch |-> pitch,
     text |-> [t \in 1..text_len |-> t],
     attn_prior |-> AttnPrior(text_len, Len(pitch)),
     raw_text |-> <<text_len, pitch>>,
     speaker |-> text_len,
     lang |-> 3]

Samples ==
    {Sample(P, pitch) : P \in 1..MaxTextLen, pitch \in PitchTensorSet}

\* pad_1D: rows padded with 0 to the longest row
Pad1D(rows) ==
    LET max_len == SeqMax([i \in 1..Len(rows) |-> Len(rows[i])])
    IN  [i \in 1..Len(rows) |->
            [t \in 1..max_len |->
                IF t <= Len(rows[i]) THEN rows[i][t] ELSE 0]]

\* pad_2D of the mels: every mel padded to the most frames
Pad2DMels(rows) ==
    LET max_len == SeqMax([i \in 1..Len(rows) |-> rows[i].frames])
    IN  [i \in 1..Len(rows) |-> [frames |-> max_len]]

\* pad_2D of the wavs of shape [1, samples]
Pad2DWavs(rows) ==
    LET max_len == SeqMax([i \in 1..Len(rows) |-> rows[i][2]])
    IN  [i \in 1..Len(rows) |-> <<rows[i][1], max_len>>]

Zero == [num |-> 0, den |-> 1]

\* pad_3D(inputs, B, T, L): a [B, T, L] tensor of zeros with each input
\* copied into its upper left corner
Pad3D(inputs, B, T, L) ==
    [i \in 1..B |->
        [k \in 1..T |->
            [m \in 1..L |->
                IF k <= Len(inputs[i]) /\ m <= Len(inputs[i][k])
                THEN inputs[i][k][m] ELSE Zero]]]

\* np.repeat(np.expand_dims(values, axis=1), repeats, axis=1)
Repeat(values, repeats) ==
    [i \in 1..Len(values) |-> [t \in 1..repeats |-> values[i]]]

\* values[:2]
FirstTwo(values) == SubSeq(values, 1, Min(2, Len(values)))

\* collate_fn with src_lens and mel_lens taken from the padded tensors
CollateFnPaddedLens(batch) ==
    LET idxs == 1..Len(batch)
        texts == Pad1D([i \in idxs |-> batch[i].text])
        mels == Pad2DMels([i \in idxs |-> batch[i].mel])
    IN  <<[i \in idxs |-> batch[i].id],
          [i \in idxs |-> batch[i].raw_text],
          Repeat([i \in idxs |-> batch[i].speaker], Len(texts[1])),
          texts,
          [i \in idxs |-> Len(texts[i])],
          mels,
          Pad1D([i \in idxs |-> batch[i].pitch]),
          FirstTwo(NormalizePitch([i \in idxs |-> batch[i].pitch])),
          [i \in idxs |-> mels[i].frames],
          Repeat([i \in idxs |-> batch[i].lang], Len(texts[1])),
          Pad3D([i \in idxs |-> batch[i].attn_prior], Len(batch),
                SeqMax([i \in idxs |-> Len(batch[i].text)]),
                SeqMax([i \in idxs |-> batch[i].mel.frames])),
          Pad2DWavs([i \in idxs |-> batch[i].wav])>>

\* collate_fn with the attention priors padded to [max(mel_lens),
\* max(src_lens)]
CollateFnPriorDimsSwapped(batch) ==
    LET idxs == 1..Len(batch)
        texts == Pad1D([i \in idxs |-> batch[i].text])
    IN  <<[i \in idxs |-> batch[i].id],
          [i \in idxs |-> batch[i].raw_text],
          Repeat([i \in idxs |-> batch[i].speaker], Len(texts[1])),
          texts,
          [i \in idxs |-> Len(batch[i].text)],
          Pad2DMels([i \in idxs |-> batch[i].mel]),
          Pad1D([i \in idxs |-> batch[i].pitch]),
          FirstTwo(NormalizePitch([i \in idxs |-> batch[i].pitch])),
          [i \in idxs |-> batch[i].mel.frames],
          Repeat([i \in idxs |-> batch[i].lang], Len(texts[1])),
          Pad3D([i \in idxs |-> batch[i].attn_prior], Len(batch),
                SeqMax([i \in idxs |-> batch[i].mel.frames]),
                SeqMax([i \in idxs |-> Len(batch[i].text)])),
          Pad2DWavs([i \in idxs |-> batch[i].wav])>>

\* collate_fn taking the statistics of the padded pitches
CollateFnStatOfPadded(batch) ==
    LET idxs == 1..Len(batch)
        texts == Pad1D([i \in idxs |-> batch[i].text])
        pitches == Pad1D([i \in idxs |-> batch[i].pitch])
    IN  <<[i \in idxs |-> batch[i].id],
          [i \in idxs |-> batch[i].raw_text],
          Repeat([i \in idxs |-> batch[i].speaker], Len(texts[1])),
          texts,
          [i \in idxs |-> Len(batch[i].text)],
          Pad2DMels([i \in idxs |-> batch[i].mel]),
          pitches,
          FirstTwo(NormalizePitch(pitches)),
          [i \in idxs |-> batch[i].mel.frames],
          Repeat([i \in idxs |-> batch[i].lang], Len(texts[1])),
          Pad3D([i \in idxs |-> batch[i].attn_prior], Len(batch),
                SeqMax([i \in idxs |-> Len(batch[i].text)]),
                SeqMax([i \in idxs |-> batch[i].mel.frames])),
          Pad2DWavs([i \in idxs |-> batch[i].wav])>>

\* collate_fn returning all four statistics as pitches_stat
CollateFnAllStats(batch) ==
    LET idxs == 1..Len(batch)
        texts == Pad1D([i \in idxs |-> batch[i].text])
    IN  <<[i \in idxs |-> batch[i].id],
          [i \in idxs |-> batch[i].raw_text],
          Repeat([i \in idxs |-> batch[i].speaker], Len(texts[1])),
          texts,
          [i \in idxs |-> Len(batch[i].text)],
          Pad2DMels([i \in idxs |-> batch[i].mel]),
          Pad1D([i \in idxs |-> batch[i].pitch]),
          NormalizePitch([i \in idxs |-> batch[i].pitch]),
          [i \in idxs |-> batch[i].mel.frames],
          Repeat([i \in idxs |-> batch[i].lang], Len(texts[1])),
          Pad3D([i \in idxs |-> batch[i].attn_prior], Len(batch),
                SeqMax([i \in idxs |-> Len(batch[i].text)]),
                SeqMax([i \in idxs |-> batch[i].mel.frames])),
          Pad2DWavs([i \in idxs |-> batch[i].wav])>>

\* collate_fn: the list [ids, raw_texts, speakers, texts, src_lens, mels,
\* pitches, pitches_stat, mel_lens, langs, attn_priors, wavs]
CollateFn(batch) ==
    LET idxs == 1..Len(batch)
        ids == [i \in idxs |-> batch[i].id]
        speakers == [i \in idxs |-> batch[i].speaker]
        raw_texts == [i \in idxs |-> batch[i].raw_text]
        langs == [i \in idxs |-> batch[i].lang]
        src_lens == [i \in idxs |-> Len(batch[i].text)]
        mel_lens == [i \in idxs |-> batch[i].mel.frames]
        pitches_stat ==
            FirstTwo(NormalizePitch([i \in idxs |-> batch[i].pitch]))
        texts == Pad1D([i \in idxs |-> batch[i].text])
        mels == Pad2DMels([i \in idxs |-> batch[i].mel])
        pitches == Pad1D([i \in idxs |-> batch[i].pitch])
        attn_priors == Pad3D([i \in idxs |-> batch[i].attn_prior],
                             Len(batch), SeqMax(src_lens), SeqMax(mel_lens))
        wavs == Pad2DWavs([i \in idxs |-> batch[i].wav])
    IN  <<ids, raw_texts, Repeat(speakers, Len(texts[1])), texts, src_lens,
          mels, pitches, pitches_stat, mel_lens,
          Repeat(langs, Len(texts[1])), attn_priors, wavs>>

\* the loader fetches the next sample of the batch
FetchSample ==
    /\ ~normalized.done
    /\ ~collated.done
    /\ Len(data) < MaxSamples
    /\ \E s \in Samples : data' = Append(data, s)
    /\ UNCHANGED <<collated, normalized, prior>>
    /\ UNCHANGED <<pitchVars, ckptVars, maskVars, vocoderVars, fsVars>>

\* self.dataset.collate_fn(data)
CallCollateFn ==
    /\ ~normalized.done
    /\ ~collated.done
    /\ Len(data) >= 1
    /\ collated' = [done |-> TRUE, out |-> CollateFn(data)]
    /\ UNCHANGED <<data, normalized, prior>>
    /\ UNCHANGED <<pitchVars, ckptVars, maskVars, vocoderVars, fsVars>>

\* the batch is handed to the training step; the next batch starts empty
NextCollate ==
    /\ collated.done
    /\ collated' = NoCollated
    /\ data' = NoData
    /\ UNCHANGED <<normalized, prior>>
    /\ UNCHANGED <<pitchVars, ckptVars, maskVars, vocoderVars, fsVars>>

---------------------------------------------------------------------------
(* LIBRITTS_R.__init__ and the part of the file system it looks at: the    *)
(* dataset path root/LibriTTS/<type> and the archive root/<type>.tar.gz.   *)
(* Each is absent, a regular file or a directory.                          *)

\* the allowed dataset types
DatasetTypes ==
    {"dev-clean", "dev-other", "test-clean", "test-other",
     "train-clean-100", "train-clean-360", "train-other-500"}

\* the archive names of the keys of _CHECKSUMS
ChecksumKeys ==
    {"dev_clean", "dev_other", "test_clean", "test_other",
     "train_clean_100", "train_clean_360", "train_other_500"}

\* _CHECKSUMS.get(url, None) for the url built from a dataset type
Checksum(type) == IF type \in ChecksumKeys THEN "md5" ELSE "None"

PathStates == {"absent", "file", "dir"}

ArchiveStates == {"absent", "file"}

FileSystems == [type : DatasetTypes, path : PathStates, archive : ArchiveStates]

IsDir(p) == p = "dir"
IsFile(p) == p = "file"
Exists(p) == p # "absent"

\* what _extract_tar(archive) can leave at the dataset path: the archive
\* may or may not hold the folder the path names, and a file in the way
\* stays where it is
Extracted(f) ==
    IF f.path = "absent"
    THEN {[f EXCEPT !.path = "dir"], f}
    ELSE {f}

NoLibrittsR == [called |-> FALSE]

\* the outcome of a constructor call that got as far as the checks
Outcome(f, download) ==
    [called |-> TRUE, type |-> f.type, download |-> download, before |-> f,
     downloaded |-> FALSE, hash_prefix |-> "None", extracted |-> FALSE,
     raised |-> "none", walker |-> FALSE]

\* a constructor that downloads whenever the directory is missing
LibrittsRInitAlwaysDownload(f, download) ==
    LET o == Outcome(f, download)
    IN  IF download
        THEN IF ~IsDir(f.path)
             THEN {[fs |-> g,
                    result |-> [o EXCEPT !.downloaded = TRUE,
                                         !.hash_prefix = Checksum(f.type),
                                         !.extracted = TRUE,
                                         !.walker = TRUE]] :
                      g \in Extracted([f EXCEPT !.archive = "file"])}
             ELSE {[fs |-> f, result |-> [o EXCEPT !.walker = TRUE]]}
        ELSE IF ~Exists(f.path)
             THEN {[fs |-> f, result |-> [o EXCEPT !.raised = "RuntimeError"]]}
             ELSE {[fs |-> f, result |-> [o EXCEPT !.walker = TRUE]]}

\* LIBRITTS_R.__init__(root, url = f.type, download): the file systems and
\* results it can end with.  A download can fail, which ends the call.
LibrittsRInit(f, download) ==
    LET o == Outcome(f, download)
    IN  IF download
        THEN IF ~IsDir(f.path)
             THEN IF ~IsFile(f.archive)
                  THEN LET d == [o EXCEPT !.downloaded = TRUE,
                                          !.hash_prefix = Checksum(f.type)]
                       IN  {[fs |-> f,
                             result |-> [d EXCEPT !.raised = "DownloadError"]]}
                           \cup
                           {[fs |-> g,
                             result |-> [d EXCEPT !.extracted = TRUE,
                                                  !.walker = TRUE]] :
                               g \in Extracted([f EXCEPT !.archive = "file"])}
                  ELSE {[fs |-> g,
                         result |-> [o EXCEPT !.extracted = TRUE,
                                              !.walker = TRUE]] :
                           g \in Extracted(f)}
             ELSE {[fs |-> f, result |-> [o EXCEPT !.walker = TRUE]]}
        ELSE IF ~Exists(f.path)
             THEN {[fs |-> f, result |-> [o EXCEPT !.raised = "RuntimeError"]]}
             ELSE {[fs |-> f, result |-> [o EXCEPT !.walker = TRUE]]}

\* LIBRITTS_R(root, url, download)
ConstructLibrittsR ==
    /\ \E download \in BOOLEAN :
          \E o \in LibrittsRInit(fs, download) :
             /\ fs' = o.fs
             /\ libritts_r' = o.result
    /\ UNCHANGED <<prior, data, collated, normalized, itemVars, cacheVars>>
    /\ UNCHANGED <<pitchVars, ckptVars, maskVars, vocoderVars>>

NoFileSystem == [type |-> "none", path |-> "absent", archive |-> "absent"]

IdleFiles ==
    /\ fs = NoFileSystem
    /\ libritts_r = NoLibrittsR

---------------------------------------------------------------------------
(* load_libritts_item and the files it reads and writes for one utterance: *)
(* <id>.original.txt, <id>.normalized.txt and the row of the utterance in  *)
(* <speaker>_<chapter>.trans.tsv.  A text file is absent or holds one line. *)

\* the lines a transcript file or a column of the .tsv row can hold
Texts == {"Chapter 1.", "Chapter one.", "chapter one"}

TextFileStates == Texts \cup {"absent"}

\* the row of the utterance in the .trans.tsv file
TsvRows == [present : {TRUE}, original_text : Texts, normalized_text : Texts]

\* the .trans.tsv file is missing
NoTsv == [present |-> FALSE]

Transcripts ==
    [original : TextFileStates, normalized : TextFileStates,
     tsv : TsvRows \cup {NoTsv}]

NoItem == [called |-> FALSE]

Returned(original_text, normalized_text) ==
    [called |-> TRUE, error |-> "none", original_text |-> original_text,
     normalized_text |-> normalized_text]

\* load_libritts_item(fileid, path, ...): the files after the call and the
\* texts it returns.  Both text files are read when they exist; when one
\* is missing the row of the .tsv file is returned, original_text is
\* written to the .normalized.txt path and normalized_text to the
\* .original.txt path.
LoadLibrittsItem(t) ==
    IF t.normalized # "absent" /\ t.original # "absent"
    THEN [files |-> t, result |-> Returned(t.original, t.normalized)]
    ELSE IF ~t.tsv.present
    THEN [files |-> t,
          result |-> [called |-> TRUE, error |-> "FileNotFoundError"]]
    ELSE [files |-> [t EXCEPT !.normalized = t.tsv.original_text,
                              !.original = t.tsv.normalized_text],
          result |-> Returned(t.tsv.original_text, t.tsv.normalized_text)]

\* LIBRITTS_R.__getitem__(n) for the utterance
CallLoadLibrittsItem ==
    /\ transcripts' = LoadLibrittsItem(transcripts).files
    /\ item' = LoadLibrittsItem(transcripts).result
    /\ UNCHANGED <<fs, libritts_r, prior, data, collated, normalized>>
    /\ UNCHANGED <<pitchVars, ckptVars, maskVars, vocoderVars, cacheVars>>

NoTranscripts ==
    [original |-> "absent", normalized |-> "absent", tsv |-> NoTsv]

IdleItem ==
    /\ transcripts = NoTranscripts
    /\ item = NoItem

---------------------------------------------------------------------------
(* LibriTTSDatasetAcoustic.__getitem__ and its two caches.  A sample is    *)
(* identified by the dataset row it was preprocessed from.  Every loader   *)
(* worker holds its own copy of the dataset object, so memory_cache is per *)
(* worker; the cache files <idx>.pt in cache_dir are shared.  A retry is a *)
(* recursive call, so a call holds one stack frame per retry.              *)

\* the dataset has 1..MaxRows rows
MaxRows == 3
\* the retries a call can nest before the interpreter's recursion limit
MaxDepth == 2

\* the dataset the workers of the training script share has
\* 1..MaxSharedRows rows
MaxSharedRows == 2

\* the loader workers
Workers == {1, 2}

\* the indices 0..len(dataset)-1
Rows(len) == 0..(len - 1)

\* a dataset: its length, the rows whose preprocessing returns a sample
\* (for the others it returns None), and the two cache flags
AcousticDatasets ==
    UNION {[len : {n}, ok : SUBSET Rows(n), cache : BOOLEAN,
            mem_cache : BOOLEAN] : n \in 1..MaxRows}

NoResult == [kind |-> "none", id |-> 0 - 1]

\* return of the sample preprocessed from row id
Sampled(id) == [kind |-> "sample", id |-> id]

Raised(error) == [kind |-> error, id |-> 0 - 1]

\* no cached entry: self.memory_cache = {} and an empty cache_dir
Empty == [k \in {} |-> 0]

\* cache[key] = value
Put(cache, key, value) ==
    [k \in DOMAIN cache \cup {key} |-> IF k = key THEN value ELSE cache[k]]

\* a worker that has not called __getitem__
IdleWorker ==
    [pc |-> "idle", requested |-> 0, idx |-> 0, depth |-> 0,
     result |-> NoResult, memory_cache |-> Empty]

NoCalls == [returned |-> Empty, again |-> {}]

\* the rows whose sample some call has returned
ReturnedRows == UNION {calls.returned[i] : i \in DOMAIN calls.returned}

\* a memory cache that is never hit
InMemoryCacheNever(me) == FALSE

\* self.mem_cache and idx in self.memory_cache
InMemoryCache(me) ==
    acoustic_dataset.mem_cache /\ me.idx \in DOMAIN me.memory_cache

\* self.cache and os.path.exists(cache_file)
InCache(me) == acoustic_dataset.cache /\ me.idx \in DOMAIN cache_dir

\* the sample cached under the index the loader asked for
CacheKeyRequested(me) == me.requested

\* the index the preprocessed sample is cached under: idx of the frame
\* that preprocessed it
CacheKey(me) == me.idx

\* the frame returns result, which every enclosing frame returns in turn
Returning(me, result) == [me EXCEPT !.pc = "returned", !.result = result]

\* the frame raises, which ends the call and the worker
Raising(me, error) == [me EXCEPT !.pc = "raised", !.result = Raised(error)]

\* the record of the calls, after a call for requested returned result
Recorded(c, requested, result) ==
    [c EXCEPT !.returned =
        Put(@, requested,
            (IF requested \in DOMAIN @ THEN @[requested] ELSE {})
            \cup {result.id})]

OtherVars ==
    <<pitchVars, ckptVars, maskVars, vocoderVars, prior, data, collated,
      normalized, fs, libritts_r, itemVars>>

\* dataset[idx] is called by the loader
GetItem(w, idx) ==
    /\ workers[w].pc \in {"idle", "returned"}
    /\ idx \in Rows(acoustic_dataset.len)
    /\ workers' = [workers EXCEPT ![w].pc = "lookup",
                                  ![w].requested = idx,
                                  ![w].idx = idx,
                                  ![w].depth = 0,
                                  ![w].result = NoResult]
    /\ UNCHANGED <<acoustic_dataset, cache_dir, calls, OtherVars>>

\* lines 83-95: the memory cache, then the cache file, which torch.load
\* reads; a file that is not completely written makes torch.load raise
Lookup(w) ==
    LET me == workers[w]
    IN  /\ me.pc = "lookup"
        /\ IF InMemoryCache(me)
           THEN /\ workers' = [workers EXCEPT ![w] =
                                  Returning(me, me.memory_cache[me.idx])]
                /\ calls' = Recorded(calls, me.requested,
                                     me.memory_cache[me.idx])
           ELSE IF InCache(me)
           THEN IF cache_dir[me.idx].complete
                THEN /\ workers' = [workers EXCEPT ![w] =
                                       Returning(me, cache_dir[me.idx].data)]
                     /\ calls' = Recorded(calls, me.requested,
                                          cache_dir[me.idx].data)
                ELSE /\ workers' = [workers EXCEPT ![w] =
                                       Raising(me, "LoadError")]
                     /\ UNCHANGED calls
           ELSE /\ workers' = [workers EXCEPT ![w].pc = "preprocess"]
                /\ UNCHANGED calls
        /\ UNCHANGED <<acoustic_dataset, cache_dir, OtherVars>>

\* lines 98-135 for a row that preprocesses: the sample is put into the
\* memory cache, and with cache enabled torch.save opens the cache file,
\* which creates or truncates it
Preprocess(w) ==
    LET me == workers[w]
        result == Sampled(me.idx)
        stored == IF acoustic_dataset.mem_cache
                  THEN Put(me.memory_cache, CacheKey(me), result)
                  ELSE me.memory_cache
        again == IF me.idx \in ReturnedRows
                 THEN calls.again \cup {me.idx} ELSE calls.again
    IN  /\ me.pc = "preprocess"
        /\ me.idx \in acoustic_dataset.ok
        /\ IF acoustic_dataset.cache
           THEN /\ workers' = [workers EXCEPT ![w] =
                                  [me EXCEPT !.pc = "saving",
                                             !.result = result,
                                             !.memory_cache = stored]]
                /\ cache_dir' = Put(cache_dir, CacheKey(me),
                                    [complete |-> FALSE, data |-> result,
                                     writer |-> w])
                /\ calls' = [calls EXCEPT !.again = again]
           ELSE /\ workers' = [workers EXCEPT ![w] =
                                  [Returning(me, result)
                                      EXCEPT !.memory_cache = stored]]
                /\ calls' = Recorded([calls EXCEPT !.again = again],
                                     me.requested, result)
                /\ UNCHANGED cache_dir
        /\ UNCHANGED <<acoustic_dataset, OtherVars>>

\* lines 135-137: torch.save has written the whole file.  The file is
\* complete when this worker was the last to open it; when another worker
\* opened it later and is still writing, the file may or may not be whole
FinishSave(w) ==
    LET me == workers[w]
        file == cache_dir[CacheKey(me)]
    IN  /\ me.pc = "saving"
        /\ \E complete \in (IF file.writer = w THEN {TRUE}
                            ELSE {file.complete, TRUE}) :
              cache_dir' = [cache_dir EXCEPT
                               ![CacheKey(me)].complete = complete]
        /\ workers' = [workers EXCEPT ![w] = Returning(me, me.result)]
        /\ calls' = Recorded(calls, me.requested, me.result)
        /\ UNCHANGED <<acoustic_dataset, OtherVars>>

\* lines 103-106 for a row whose preprocessing returns None:
\* return self.__getitem__(rand_idx)
Retry(w, rand_idx) ==
    LET me == workers[w]
    IN  /\ me.pc = "preprocess"
        /\ me.idx \notin acoustic_dataset.ok
        /\ me.depth < MaxDepth
        /\ rand_idx \in Rows(acoustic_dataset.len)
        /\ workers' = [workers EXCEPT ![w].pc = "lookup",
                                      ![w].idx = rand_idx,
                                      ![w].depth = me.depth + 1]
        /\ UNCHANGED <<acoustic_dataset, cache_dir, calls, OtherVars>>

\* the recursive call of line 106 that exceeds the recursion limit
RecursionError(w) ==
    LET me == workers[w]
    IN  /\ me.pc = "preprocess"
        /\ me.idx \notin acoustic_dataset.ok
        /\ me.depth = MaxDepth
        /\ workers' = [workers EXCEPT ![w] =
                          Raising(me, "RecursionError")]
        /\ UNCHANGED <<acoustic_dataset, cache_dir, calls, OtherVars>>

NoAcousticDataset ==
    [len |-> 1, ok |-> {}, cache |-> FALSE, mem_cache |-> FALSE]

IdleCache ==
    /\ acoustic_dataset = NoAcousticDataset
    /\ cache_dir = Empty
    /\ workers = [w \in Workers |-> IdleWorker]
    /\ calls = NoCalls

IdleData ==
    /\ prior = NoPrior
    /\ data = NoData
    /\ collated = NoCollated
    /\ normalized = NoNormalized
    /\ IdleFiles
    /\ IdleItem
    /\ IdleCache

---------------------------------------------------------------------------
(* Specifications *)

NoModel ==
    /\ n_bins = 0
    /\ stats = [pitch_min |-> 0, pitch_max |-> 0]
    /\ pitch_bins = Linspace(0, 0, 0)
    /\ pitch_embedding = <<>>

InitModel ==
    \E n \in 1..MaxBins, st \in ValidStats :
       \E m \in Construct(n, st) :
          /\ n_bins = m.n_bins
          /\ stats = m.stats
          /\ pitch_bins = m.pitch_bins
          /\ pitch_embedding = m.pitch_embedding

\* the pitch adaptor after construction, called once per forward pass
Init ==
    /\ InitModel
    /\ call = NoCall
    /\ checkpoint = NoCheckpoint
    /\ origin = NoCheckpoint
    /\ forward_train_params = NoBatch
    /\ masks = NoMasks
    /\ IdleVocoder
    /\ IdleData

Next ==
    \/ CallGetPitchEmbeddingTrain
    \/ CallGetPitchEmbedding
    \/ CallAddPitchTrain
    \/ CallAddPitch
    \/ EndForward

Spec == Init /\ [][Next]_vars

\* saving the model and loading the checkpoint into a model built again
NextCkpt ==
    \/ SaveCheckpoint
    \/ Reconstruct
    \/ \E strict \in BOOLEAN : LoadStateDict(strict)

SpecCkpt == Init /\ [][NextCkpt]_vars

\* the mask of a batch of forward parameters
InitMasks ==
    /\ NoModel
    /\ call = NoCall
    /\ checkpoint = NoCheckpoint
    /\ origin = NoCheckpoint
    /\ forward_train_params \in Batches
    /\ masks = NoMasks
    /\ IdleVocoder
    /\ IdleData

NextMasks ==
    \/ InitMaskInputEmbeddingsEncodingAttnMask
    \/ NextBatch

SpecMasks == InitMasks /\ [][NextMasks]_vars

\* no acoustic model is involved
IdleAcoustic ==
    /\ NoModel
    /\ call = NoCall
    /\ checkpoint = NoCheckpoint
    /\ origin = NoCheckpoint
    /\ forward_train_params = NoBatch
    /\ masks = NoMasks

\* the discriminator ensemble of the vocoder, configured at construction
InitDisc ==
    /\ IdleAcoustic
    /\ resolutions \in ResolutionLists
    /\ disc = NoDisc
    /\ loss = NoLoss
    /\ IdleData

NextDisc ==
    \/ DiscriminatorForward
    \/ EndDiscriminator

SpecDisc == InitDisc /\ [][NextDisc]_vars

\* the log-STFT-magnitude loss called on pairs of magnitude tensors
InitLoss ==
    /\ IdleAcoustic
    /\ IdleVocoder
    /\ IdleData

NextLoss ==
    \/ LogSTFTMagnitudeLossForward
    \/ EndLoss

SpecLoss == InitLoss /\ [][NextLoss]_vars

\* the attention prior computed by preprocessing
InitPrior ==
    /\ IdleAcoustic
    /\ IdleVocoder
    /\ IdleData

NextPrior ==
    \/ CallBetaBinomialPriorDistribution
    \/ Acoustic
    \/ EndPreprocess

SpecPrior == InitPrior /\ [][NextPrior]_vars

\* batches collated from preprocessed samples, and normalize_pitch alone
InitCollate ==
    /\ IdleAcoustic
    /\ IdleVocoder
    /\ IdleData

NextCollateFn ==
    \/ FetchSample
    \/ CallCollateFn
    \/ NextCollate
    \/ CallNormalizePitch
    \/ EndNormalizePitch

SpecCollate == InitCollate /\ [][NextCollateFn]_vars

\* LIBRITTS_R constructed, any number of times, over one file system
InitLibrittsR ==
    /\ IdleAcoustic
    /\ IdleVocoder
    /\ prior = NoPrior
    /\ data = NoData
    /\ collated = NoCollated
    /\ normalized = NoNormalized
    /\ fs \in FileSystems
    /\ libritts_r = NoLibrittsR
    /\ IdleItem
    /\ IdleCache

NextLibrittsR == ConstructLibrittsR

SpecLibrittsR == InitLibrittsR /\ [][NextLibrittsR]_vars

\* one utterance loaded any number of times, from any state of its files
InitItem ==
    /\ IdleAcoustic
    /\ IdleVocoder
    /\ prior = NoPrior
    /\ data = NoData
    /\ collated = NoCollated
    /\ normalized = NoNormalized
    /\ IdleFiles
    /\ transcripts \in Transcripts
    /\ item = NoItem
    /\ IdleCache

NextItem == CallLoadLibrittsItem

SpecItem == InitItem /\ [][NextItem]_vars

\* the calls of one worker, one after the other, for every dataset and
\* every setting of the cache flags
InitGetItem ==
    /\ IdleAcoustic
    /\ IdleVocoder
    /\ prior = NoPrior
    /\ data = NoData
    /\ collated = NoCollated
    /\ normalized = NoNormalized
    /\ IdleFiles
    /\ IdleItem
    /\ acoustic_dataset \in AcousticDatasets
    /\ cache_dir = Empty
    /\ workers = [w \in Workers |-> IdleWorker]
    /\ calls = NoCalls

NextGetItem ==
    \/ \E idx \in Rows(MaxRows) : GetItem(1, idx)
    \/ Lookup(1)
    \/ Preprocess(1)
    \/ FinishSave(1)
    \/ \E rand_idx \in Rows(MaxRows) : Retry(1, rand_idx)
    \/ RecursionError(1)

SpecGetItem == InitGetItem /\ [][NextGetItem]_vars

\* the same calls when every started call goes on and np.random.randint
\* returns every index again and again
SpecGetItemFair ==
    /\ SpecGetItem
    /\ WF_vars(Lookup(1) \/ Preprocess(1) \/ FinishSave(1)
               \/ RecursionError(1))
    /\ \A rand_idx \in Rows(MaxRows) : SF_vars(Retry(1, rand_idx))

\* several workers sharing one cache_dir, with the flags of the training
\* script: cache=True, mem_cache=False
InitWorkers ==
    /\ InitGetItem
    /\ acoustic_dataset.cache
    /\ ~acoustic_dataset.mem_cache
    /\ acoustic_dataset.len <= MaxSharedRows

NextWorkers ==
    \E w \in Workers :
        \/ \E idx \in Rows(MaxRows) : GetItem(w, idx)
        \/ Lookup(w)
        \/ Preprocess(w)
        \/ FinishSave(w)
        \/ \E rand_idx \in Rows(MaxRows) : Retry(w, rand_idx)
        \/ RecursionError(w)

SpecWorkers == InitWorkers /\ [][NextWorkers]_vars

---------------------------------------------------------------------------
(* Properties of the pitch adaptor *)

\* the (value, bucket) pairs of a call: the targets with their buckets and
\* the (scaled) predictions with theirs
ValueBuckets(c) ==
    {<<c.target[t], c.bucket_true[t]>> : t \in DOMAIN c.bucket_true}
    \cup {<<c.prediction[t], c.bucket_pred[t]>> : t \in DOMAIN c.bucket_pred}

\* boundary i of the table as torch indexes it (from 0) is num[i + 1] / den
OnBoundary(v, i) == pitch_bins.num[i + 1] = v * pitch_bins.den

BoundaryIndices == 0..(Len(pitch_bins.num) - 1)

TrainOps == {"get_pitch_embedding_train", "add_pitch_train"}
InferOps == {"get_pitch_embedding", "add_pitch"}

\* C1, as claimed: bucketization is right-open.  A value equal to
\* pitch_bins[i] is assigned to bucket i + 1, and the bucket b of a value v
\* satisfies pitch_bins[b-1] <= v < pitch_bins[b], on the training path and
\* on the inference path.
C1_RightOpen ==
    \A p \in ValueBuckets(call) :
        /\ \A i \in BoundaryIndices : OnBoundary(p[1], i) => p[2] = i + 1
        /\ p[2] >= 1 =>
              pitch_bins.num[p[2]] <= p[1] * pitch_bins.den
        /\ p[2] < Len(pitch_bins.num) =>
              p[1] * pitch_bins.den < pitch_bins.num[p[2] + 1]

\* C1, amended: bucketization is left-open and right-closed.  The bucket b
\* of a value v satisfies pitch_bins[b-1] < v <= pitch_bins[b], so a value
\* equal to a boundary is assigned to the lower bucket: the index of the
\* first boundary equal to it.  This holds for the targets and predictions
\* of training and for the scaled predictions of inference.
C1_LeftOpen ==
    \A p \in ValueBuckets(call) :
        /\ p[2] >= 1 =>
              pitch_bins.num[p[2]] < p[1] * pitch_bins.den
        /\ p[2] < Len(pitch_bins.num) =>
              p[1] * pitch_bins.den <= pitch_bins.num[p[2] + 1]
        /\ \A i \in BoundaryIndices :
              OnBoundary(p[1], i) => p[2] <= i /\ OnBoundary(p[1], p[2])

\* a training call whose target and whose prediction both hold a value
\* that lies exactly on a boundary with a bucket below it
C1_Witness ==
    /\ call.op \in TrainOps
    /\ call.error = "none"
    /\ stats.pitch_min < stats.pitch_max
    /\ \E t \in Positions : \E i \in BoundaryIndices :
          i >= 1 /\ OnBoundary(call.target[t], i)
    /\ \E t \in Positions : \E i \in BoundaryIndices :
          i >= 1 /\ OnBoundary(call.prediction[t], i)

\* C2: every call succeeds, every bucket index is in 0..n_bins-1 and is a
\* row of the embedding table; a value below pitch_min has bucket 0 and a
\* value above pitch_max has bucket n_bins-1.
C2_BucketInRange ==
    /\ call.error = "none"
    /\ DOMAIN pitch_embedding = 0..(n_bins - 1)
    /\ \A p \in ValueBuckets(call) :
          /\ p[2] \in 0..(n_bins - 1)
          /\ p[2] \in DOMAIN pitch_embedding
          /\ p[1] < stats.pitch_min => p[2] = 0
          /\ p[1] > stats.pitch_max => p[2] = n_bins - 1

\* a call with a value below pitch_min and a value above pitch_max, with
\* more than one bucket
C2_Witness ==
    /\ call.op # "none"
    /\ n_bins >= 2
    /\ \E p \in ValueBuckets(call) : p[1] < stats.pitch_min
    /\ \E p \in ValueBuckets(call) : p[1] > stats.pitch_max /\ p[2] = n_bins - 1

\* C3: add_pitch_train returns x + embedding_from_target when
\* use_ground_truth is true and x + embedding_from_prediction when it is
\* false; the prediction and the two embeddings it returns are those the
\* call with the other value of the flag returns.
C3_TeacherForcing ==
    call.op = "add_pitch_train" =>
        LET other == AddPitchTrain(call.x, call.target, call.mask,
                                   ~call.use_ground_truth, call.raw)
        IN  /\ call.error = "none"
            /\ call.out = TensorAdd(call.x,
                             IF call.use_ground_truth
                             THEN call.embedding_true
                             ELSE call.embedding_pred)
            /\ call.embedding_true = Embed(BucketizeTensor(call.target,
                                                           pitch_bins))
            /\ call.embedding_pred = Embed(BucketizeTensor(call.raw,
                                                           pitch_bins))
            /\ other.prediction = call.prediction
            /\ other.embedding_true = call.embedding_true
            /\ other.embedding_pred = call.embedding_pred

\* add_pitch_train without ground truth, where the two embeddings differ
C3_Witness ==
    /\ call.op = "add_pitch_train"
    /\ ~call.use_ground_truth
    /\ call.error = "none"
    /\ call.embedding_true # call.embedding_pred
    /\ call.out = TensorAdd(call.x, call.embedding_pred)

\* the predictor output that is zero at every position
ZeroPrediction == [t \in Positions |-> 0]

\* C4: with use_ground_truth the hidden state add_pitch_train returns does
\* not depend on the predictor's output.  Whatever the predictor returned
\* in this run, the result is the one of the run with the same hidden
\* state, target and tables in which the predictor returns zero, so any two
\* runs that differ only in the predictor's output agree.
C4_IgnoresPrediction ==
    (call.op = "add_pitch_train" /\ call.use_ground_truth) =>
        /\ ZeroPrediction \in PredictorOutputs(call.x, call.mask)
        /\ AddPitchTrain(call.x, call.target, call.mask, TRUE,
                         ZeroPrediction).out = call.out

\* add_pitch_train with ground truth where the prediction falls into other
\* buckets than the target, and into rows with another embedding
C4_Witness ==
    /\ call.op = "add_pitch_train"
    /\ call.use_ground_truth
    /\ call.error = "none"
    /\ call.raw # ZeroPrediction
    /\ \E t \in Positions :
          call.embedding_true[t] # call.embedding_pred[t]

\* C5: add_pitch returns x plus the embedding of the bucket of
\* control * prediction; with control = 1 that is the hidden state
\* add_pitch_train returns without ground truth for the same x, mask and
\* predictor output, whatever the target.
C5_Control ==
    call.op = "add_pitch" =>
        /\ call.error = "none"
        /\ call.out = TensorAdd(call.x,
                         Embed(BucketizeTensor(
                                  TensorScale(call.raw, call.control),
                                  pitch_bins)))
        /\ call.control = 1 =>
              \A target \in PitchTensors :
                  AddPitchTrain(call.x, target, call.mask, FALSE,
                                call.raw).out = call.out

\* add_pitch with a control that moves a prediction into another bucket
C5_Witness ==
    /\ call.op = "add_pitch"
    /\ call.error = "none"
    /\ call.control # 1
    /\ call.bucket_pred # BucketizeTensor(call.raw, pitch_bins)

\* C6: bucketization is monotonic.  For the values v1 < v2 of a call, with
\* buckets b1 and b2, b1 <= b2.
C6_Monotonic ==
    \A p \in ValueBuckets(call), q \in ValueBuckets(call) :
        p[1] < q[1] => p[2] <= q[2]

\* a call with two values in different buckets
C6_Witness ==
    \E p \in ValueBuckets(call), q \in ValueBuckets(call) :
        p[1] < q[1] /\ p[2] < q[2]

StrictlyIncreasing(bins) ==
    \A i \in 1..(Len(bins.num) - 1) : bins.num[i] < bins.num[i + 1]

FirstIs(bins, v) == bins.num[1] = v * bins.den

LastIs(bins, v) == bins.num[Len(bins.num)] = v * bins.den

\* C7, as claimed: for n_bins >= 2 and pitch_min < pitch_max the table has
\* n_bins - 1 boundaries, is increasing, starts at pitch_min and ends at
\* pitch_max, and the embedding table has n_bins rows.
C7_SpansFromTwoBins ==
    (n_bins >= 2 /\ stats.pitch_min < stats.pitch_max) =>
        /\ Len(pitch_bins.num) = n_bins - 1
        /\ StrictlyIncreasing(pitch_bins)
        /\ FirstIs(pitch_bins, stats.pitch_min)
        /\ LastIs(pitch_bins, stats.pitch_max)
        /\ Cardinality(DOMAIN pitch_embedding) = n_bins

\* C7, amended: for n_bins >= 2 and pitch_min < pitch_max the table has
\* n_bins - 1 boundaries, is increasing and starts at pitch_min, and the
\* embedding table has n_bins rows; it ends at pitch_max when n_bins >= 3,
\* and with n_bins = 2 its only boundary is pitch_min.
C7_SpansFromThreeBins ==
    (n_bins >= 2 /\ stats.pitch_min < stats.pitch_max) =>
        /\ Len(pitch_bins.num) = n_bins - 1
        /\ StrictlyIncreasing(pitch_bins)
        /\ FirstIs(pitch_bins, stats.pitch_min)
        /\ n_bins >= 3 => LastIs(pitch_bins, stats.pitch_max)
        /\ n_bins = 2 => LastIs(pitch_bins, stats.pitch_min)
        /\ Cardinality(DOMAIN pitch_embedding) = n_bins

\* a model with four bins over a proper pitch range, in use
C7_Witness ==
    /\ n_bins >= 4
    /\ stats.pitch_min < stats.pitch_max
    /\ call.op # "none"

\* C8: no operation changes the bin boundaries, and no operation changes
\* the hidden state it was given.
C8_Frame ==
    /\ [](call.op # "none" => call.x_after = call.x)
    /\ [][pitch_bins' = pitch_bins]_vars

\* an add_pitch call that returned a hidden state other than its input
C8_Witness ==
    /\ call.op = "add_pitch"
    /\ call.error = "none"
    /\ call.out # call.x
    /\ pitch_bins = PitchBinsOf(stats.pitch_min, stats.pitch_max, n_bins)

---------------------------------------------------------------------------
(* Properties of the checkpoint and of the mask *)

TrueCount(row) == Cardinality({t \in DOMAIN row : row[t]})

\* C10: the mask of the source lengths has one row per sample and
\* max(lengths) columns, entry (i, t) is true iff t >= lengths[i], and row
\* i holds max(lengths) - lengths[i] true entries.
C10_Mask ==
    masks.done =>
        LET lengths == forward_train_params.src_lens
            m == masks.src_mask
        IN  /\ Len(m) = Len(lengths)
            /\ \A i \in 1..Len(lengths) :
                  /\ DOMAIN m[i] = 0..(SeqMax(lengths) - 1)
                  /\ \A t \in DOMAIN m[i] : m[i][t] <=> t >= lengths[i]
                  /\ TrueCount(m[i]) = SeqMax(lengths) - lengths[i]

\* the mask of a batch of two samples of different lengths
C10_Witness ==
    /\ masks.done
    /\ Len(forward_train_params.src_lens) = 2
    /\ forward_train_params.src_lens[1] < forward_train_params.src_lens[2]
    /\ TrueCount(masks.src_mask[1]) > 0
    /\ TrueCount(masks.src_mask[2]) = 0

---------------------------------------------------------------------------
(* Properties of the variance predictor inside the pitch adaptor *)

MaskedPositions(c) == {t \in Positions : c.mask[t]}

\* C11: the pitch prediction the variance predictor returns is exactly 0 at
\* every masked position, whatever the hidden states; the training methods
\* hand that prediction back unchanged, so what they return is 0 there too.
C11_MaskedPredictionZero ==
    call.op # "none" =>
        \A t \in MaskedPositions(call) :
            /\ call.raw[t] = 0
            /\ (call.op \in TrainOps /\ call.error = "none")
                   => call.prediction[t] = 0

\* a training call on a sample with a padding position where the hidden
\* state is not zero and the prediction is not zero at the valid position
C11_Witness ==
    /\ call.op = "get_pitch_embedding_train"
    /\ call.error = "none"
    /\ call.mask = MaskOfLength(1)
    /\ call.x[2] # 0
    /\ call.raw[1] # 0
    /\ call.prediction[2] = 0

\* C29: at inference the pitch embedding at a masked position does not
\* depend on control.  The prediction there is 0, so for every control the
\* scaled prediction is 0, the bucket is the bucket of 0, the embedding is
\* the row of that bucket and add_pitch returns the hidden state plus that
\* row: values in which control does not occur.
C29_MaskedControlFree ==
    (call.op \in InferOps /\ call.error = "none") =>
        \A t \in MaskedPositions(call) :
            /\ call.raw[t] = 0
            /\ call.prediction[t] = 0
            /\ call.bucket_pred[t] = Bucketize(0, pitch_bins)
            /\ call.embedding_pred[t]
                   = pitch_embedding[Bucketize(0, pitch_bins)]
            /\ call.op = "add_pitch" =>
                  call.out[t] = call.x[t]
                                + pitch_embedding[Bucketize(0, pitch_bins)]

\* add_pitch on a sample with a padding position, with a control that
\* moves the prediction of the valid position into another bucket
C29_Witness ==
    /\ call.op = "add_pitch"
    /\ call.error = "none"
    /\ call.mask = MaskOfLength(1)
    /\ call.control = 2
    /\ call.bucket_pred[1] # Bucketize(call.raw[1], pitch_bins)
    /\ call.bucket_pred[2] = Bucketize(0, pitch_bins)

---------------------------------------------------------------------------
(* Properties of the multi-resolution discriminator *)

\* the powers p with 2^p + 1 frequency bins in the first feature map
PMaxOf(entry) ==
    {p \in 3..MaxFftPower : entry.feature_maps[1] = 2^p + 1}

\* max(2^p + 1, 2^p_min + 1), as dim_3rd of test_forward computes it; for
\* p < p_min (p may be negative) the second argument is the larger one
Dim3rd(p, p_min) ==
    IF p < p_min THEN 2^p_min + 1 ELSE Max(2^p + 1, 2^p_min + 1)

\* C12: the ensemble returns one (feature_maps, score) entry per
\* configured resolution, in configured order (3 for the default
\* configuration); in an entry whose first feature map has last dimension
\* 2^p_max + 1 the i-th feature map has last dimension
\* max(2^(p_max - i) + 1, 2^p_min + 1) with p_min = p_max - 3, and the score
\* has shape [batch, 2^p_min + 1].
C12_EntryPerResolution ==
    disc.done =>
        /\ Len(disc.out) = Len(resolutions)
        /\ (resolutions = DefaultResolutions => Len(disc.out) = 3)
        /\ \A k \in 1..Len(resolutions) :
              /\ disc.out[k].feature_maps[1] = FreqBins(resolutions[k])
              /\ \A p_max \in PMaxOf(disc.out[k]) :
                    LET p_min == p_max - 3
                        fmap == disc.out[k].feature_maps
                    IN  /\ \A i \in 0..(Len(fmap) - 1) :
                              fmap[i + 1] = Dim3rd(p_max - i, p_min)
                        /\ disc.out[k].score = <<disc.batch, 2^p_min + 1>>

\* the default configuration run on one waveform: the shapes of
\* test_forward
C12_Witness ==
    /\ disc.done
    /\ disc.batch = 1
    /\ resolutions = DefaultResolutions
    /\ disc.out[1].feature_maps = <<513, 257, 129, 65, 65>>
    /\ disc.out[2].feature_maps = <<1025, 513, 257, 129, 129>>
    /\ disc.out[3].feature_maps = <<257, 129, 65, 33, 33>>
    /\ disc.out[1].score = <<1, 65>>
    /\ disc.out[2].score = <<1, 129>>
    /\ disc.out[3].score = <<1, 33>>
    /\ \A k \in 1..3 : PMaxOf(disc.out[k]) # {}

---------------------------------------------------------------------------
(* Properties of the log-STFT-magnitude loss *)

\* C13: the loss is the mean over all elements of the absolute difference
\* of the natural logarithms and is a scalar; for x_mag = [1, 4, 9, 64] and
\* y_mag = [1, 8, 16, 256] it is 0.6637 within 1e-4.
C13_TestValue ==
    loss.done =>
        /\ loss.shape = <<>>
        /\ ([x_mag |-> loss.x_mag, y_mag |-> loss.y_mag] = TestMagnitudes
               => Abs(loss.value - 6637 * (LogScale \div 10^4))
                      <= LogScale \div 10^4)

\* the loss of the test vectors
C13_Witness ==
    /\ loss.done
    /\ loss.x_mag = <<1, 4, 9, 64>>
    /\ loss.y_mag = <<1, 8, 16, 256>>
    /\ loss.value > 0

\* C14: on identical positive magnitudes the loss is exactly 0; the loss
\* is the same with its two arguments exchanged, and it is never negative.
C14_ZeroSymmetricNonNegative ==
    loss.done =>
        /\ (loss.x_mag = loss.y_mag => loss.value = 0)
        /\ LogSTFTMagnitudeLoss(loss.y_mag, loss.x_mag).value = loss.value
        /\ loss.value >= 0

\* a loss of two elements, one where x is the larger magnitude and one
\* where y is, and a loss of identical inputs of two different magnitudes
C14_Witness ==
    /\ loss.done
    /\ Len(loss.x_mag) = 2
    /\ \/ /\ loss.x_mag[1] > loss.y_mag[1]
          /\ loss.x_mag[2] < loss.y_mag[2]
          /\ loss.x_mag[1] * loss.y_mag[2] # loss.y_mag[1] * loss.x_mag[2]
          /\ loss.value > 0
       \/ /\ loss.x_mag = loss.y_mag
          /\ loss.x_mag[1] # loss.x_mag[2]
          /\ loss.value = 0

---------------------------------------------------------------------------
(* Properties of the attention prior *)

Nums(row) == [k \in 1..Len(row) |-> row[k].num]

\* a row of rationals over one denominator that sums to 1
SumsToOne(row) ==
    /\ \A k \in 1..Len(row) : row[k].den = row[1].den /\ row[k].den > 0
    /\ SeqSum(Nums(row)) = row[1].den

\* C15: for every phoneme count and mel-frame count from 1 on, every row
\* of the prior matrix (one row per mel frame) has only non-negative
\* entries and sums to 1.
C15_RowsAreDistributions ==
    prior.op = "beta_binomial_prior_distribution" =>
        /\ Len(prior.out) = prior.mel_count
        /\ \A m \in 1..Len(prior.out) :
              /\ \A k \in 1..Len(prior.out[m]) : prior.out[m][k].num >= 0
              /\ SumsToOne(prior.out[m])

\* a prior of several rows over several phonemes, no row of which puts all
\* its mass on one phoneme
C15_Witness ==
    /\ prior.op = "beta_binomial_prior_distribution"
    /\ prior.phoneme_count = 3
    /\ prior.mel_count = 2
    /\ \A m \in 1..2 : \A k \in 1..3 : prior.out[m][k].num > 0
    /\ prior.out[1][1].num > prior.out[1][3].num
    /\ prior.out[2][1].num < prior.out[2][3].num

\* C16 as claimed: the function returns [M, P] and the attn_prior of a
\* preprocessed sample has the same orientation.
C16_OneOrientation ==
    /\ prior.op = "beta_binomial_prior_distribution"
           => Shape(prior.out) = <<prior.mel_count, prior.phoneme_count>>
    /\ prior.op = "acoustic"
           => Shape(prior.out) = <<prior.mel_count, prior.phoneme_count>>

\* C16: beta_binomial_prior_distribution(P, M) returns a matrix of shape
\* [M, P]; the attn_prior of a preprocessed sample with P phonemes and M
\* mel frames is its transpose, of shape [P, M].
C16_SampleIsTransposed ==
    /\ prior.op = "beta_binomial_prior_distribution"
           => Shape(prior.out) = <<prior.mel_count, prior.phoneme_count>>
    /\ prior.op = "acoustic"
           => LET dist == BetaBinomialPriorDistribution(
                               prior.phoneme_count, prior.mel_count)
              IN  /\ Shape(prior.out)
                         = <<prior.phoneme_count, prior.mel_count>>
                  /\ \A k \in 1..prior.phoneme_count :
                        \A m \in 1..prior.mel_count :
                           prior.out[k][m] = dist[m][k]

\* a preprocessed sample with more mel frames than phonemes
C16_Witness ==
    /\ prior.op = "acoustic"
    /\ prior.phoneme_count = 6
    /\ prior.mel_count = 8
    /\ Shape(prior.out) = <<6, 8>>

---------------------------------------------------------------------------
(* Properties of collate_fn and normalize_pitch *)

\* the position of pitches_stat in the list collate_fn returns
PitchesStatField == 8

SumSqDev(s) ==
    SeqSum([i \in 1..Len(s) |->
               (Len(s) * s[i] - SeqSum(s)) * (Len(s) * s[i] - SeqSum(s))])

Elements(s) == {s[i] : i \in 1..Len(s)}

\* C18: normalize_pitch returns (minimum, maximum, mean, sample standard
\* deviation) of all values of all tensors taken together, the same for
\* the values given as one tensor, with minimum <= mean <= maximum;
\* [100, 200, 300] and [150, 250, 350] give (100, 350, 225, 93.54).
C18_Statistics ==
    normalized.done =>
        LET r == normalized.out
            all == Concatenate(normalized.pitches)
            N == Len(all)
            S == SeqSum(all)
        IN  /\ Len(r) = 4
            /\ r[1] \in Elements(all) /\ \A v \in Elements(all) : r[1] <= v
            /\ r[2] \in Elements(all) /\ \A v \in Elements(all) : r[2] >= v
            /\ r[3].num * N = S * r[3].den
            /\ N > 1 =>
                  /\ ~r[4].nan
                  /\ r[4].sq.num * (N * N * (N - 1))
                         = SumSqDev(all) * r[4].sq.den
            /\ r = NormalizePitch(<<all>>)
            /\ r[1] * r[3].den <= r[3].num /\ r[3].num <= r[2] * r[3].den
            /\ normalized.pitches = TestPitches =>
                  /\ r[1] = 100 /\ r[2] = 350
                  /\ r[3].num = 225 * r[3].den
                  /\ 9354 * 9354 * r[4].sq.den <= r[4].sq.num * 10^4
                  /\ r[4].sq.num * 10^4 < 9355 * 9355 * r[4].sq.den

\* the call of test_normalize_pitch: two tensors of three values each
C18_Witness ==
    /\ normalized.done
    /\ normalized.pitches = TestPitches
    /\ normalized.out[1] = 100
    /\ ~normalized.out[4].nan

\* the positions of the other fields in the list collate_fn returns
TextsField == 4
SrcLensField == 5
MelsField == 6
PitchesField == 7
MelLensField == 9
AttnPriorsField == 11

\* C21: in every collated batch src_lens[i] is the token count of sample i
\* and mel_lens[i] its mel-frame count; the padded texts have time
\* dimension max(src_lens) and the padded mels max(mel_lens), so each
\* length is at most the padded dimension and equals it for some sample.
C21_LengthsWithinPadding ==
    collated.done =>
        LET texts == collated.out[TextsField]
            src_lens == collated.out[SrcLensField]
            mels == collated.out[MelsField]
            mel_lens == collated.out[MelLensField]
            idxs == 1..Len(data)
        IN  /\ \A i \in idxs :
                  /\ src_lens[i] = Len(data[i].text)
                  /\ mel_lens[i] = data[i].mel.frames
                  /\ Len(texts[i]) = SeqMax(src_lens)
                  /\ mels[i].frames = SeqMax(mel_lens)
                  /\ src_lens[i] <= Len(texts[i])
                  /\ mel_lens[i] <= mels[i].frames
            /\ \E i \in idxs : src_lens[i] = Len(texts[i])
            /\ \E i \in idxs : mel_lens[i] = mels[i].frames

\* a collated batch of two samples, the first with fewer tokens and more
\* mel frames than the second
C21_Witness ==
    /\ collated.done
    /\ Len(data) = 2
    /\ collated.out[SrcLensField][1] < collated.out[SrcLensField][2]
    /\ collated.out[MelLensField][1] > collated.out[MelLensField][2]
    /\ collated.out[SrcLensField][1] < Len(collated.out[TextsField][1])

\* C22: the attention priors of a collated batch form one tensor of shape
\* [batch, max(src_lens), max(mel_lens)]; sample i's prior occupies the
\* region [0..src_lens[i]) x [0..mel_lens[i]) unchanged and every entry
\* outside that region is 0.
C22_PriorsZeroPadded ==
    collated.done =>
        LET attn_priors == collated.out[AttnPriorsField]
            src_lens == collated.out[SrcLensField]
            mel_lens == collated.out[MelLensField]
        IN  /\ Len(attn_priors) = Len(data)
            /\ \A i \in 1..Len(data) :
                  /\ Shape(attn_priors[i])
                         = <<SeqMax(src_lens), SeqMax(mel_lens)>>
                  /\ Shape(data[i].attn_prior)
                         = <<src_lens[i], mel_lens[i]>>
                  /\ \A k \in 1..SeqMax(src_lens) :
                        \A m \in 1..SeqMax(mel_lens) :
                            attn_priors[i][k][m] =
                                IF k <= src_lens[i] /\ m <= mel_lens[i]
                                THEN data[i].attn_prior[k][m]
                                ELSE Zero

\* a collated batch of two samples in which the first sample's prior is
\* padded along the tokens and the second's along the mel frames, and a
\* prior entry inside the valid region is not 0
C22_Witness ==
    /\ collated.done
    /\ Len(data) = 2
    /\ collated.out[SrcLensField][1] < collated.out[SrcLensField][2]
    /\ collated.out[MelLensField][1] > collated.out[MelLensField][2]
    /\ collated.out[AttnPriorsField][1][2][1] = Zero
    /\ collated.out[AttnPriorsField][2][1][2] = Zero
    /\ collated.out[AttnPriorsField][1][1][1] # Zero

\* the pitch values of the samples of a batch, without padding
RealPitches(batch) ==
    UNION {Elements(batch[i].pitch) : i \in 1..Len(batch)}

\* C23: pitches_stat is [min, max] over the real pitch values of the
\* batch's samples only; the zeros padding adds to shorter samples never
\* enter the minimum or the maximum, and it has exactly 2 entries for every
\* batch size.
C23_StatOfRealPitches ==
    collated.done =>
        LET pitches_stat == collated.out[PitchesStatField]
            real == RealPitches(data)
        IN  /\ Len(pitches_stat) = 2
            /\ pitches_stat[1] \in real
            /\ \A v \in real : pitches_stat[1] <= v
            /\ pitches_stat[2] \in real
            /\ \A v \in real : v <= pitches_stat[2]

\* a collated batch of two samples whose padded pitches hold a zero that is
\* below the minimum in pitches_stat
C23_Witness ==
    /\ collated.done
    /\ Len(data) = 2
    /\ Len(data[1].pitch) < Len(data[2].pitch)
    /\ collated.out[PitchesField][1][Len(data[2].pitch)] = 0
    /\ collated.out[PitchesStatField][1] > 0
    /\ collated.out[PitchesStatField][1] < collated.out[PitchesStatField][2]

---------------------------------------------------------------------------
(* Properties of the LIBRITTS_R constructor *)

\* C19: constructing LIBRITTS_R with download = False when the dataset
\* directory does not exist raises RuntimeError; no download or extraction
\* is started and no dataset object with a file list is produced.
C19_MissingDirectoryRaises ==
    (libritts_r.called /\ ~libritts_r.download
        /\ ~IsDir(libritts_r.before.path)) =>
        /\ libritts_r.raised = "RuntimeError"
        /\ ~libritts_r.downloaded
        /\ ~libritts_r.extracted
        /\ ~libritts_r.walker

\* every construction with download = True follows the rule
DownloadOnlyIfNotFound ==
    (libritts_r.called /\ libritts_r.download) =>
        /\ libritts_r.downloaded =>
              /\ ~IsDir(libritts_r.before.path)
              /\ ~IsFile(libritts_r.before.archive)
        /\ libritts_r.extracted => ~IsDir(libritts_r.before.path)
        /\ IsDir(libritts_r.before.path) =>
              /\ ~libritts_r.downloaded
              /\ ~libritts_r.extracted
              /\ libritts_r.raised = "none"
              /\ fs = libritts_r.before

\* C20: with download = True the archive is downloaded only when neither
\* the dataset directory nor the archive file exists and is extracted only
\* when the dataset directory does not exist; once the directory exists,
\* constructing again, any number of times, downloads and extracts nothing
\* and leaves the files as they are.
C20_DownloadOnlyIfNotFound ==
    /\ []DownloadOnlyIfNotFound
    /\ [][IsDir(fs.path) =>
             /\ fs' = fs
             /\ ~libritts_r'.downloaded
             /\ ~libritts_r'.extracted]_vars

\* a construction that found neither directory nor archive, downloaded and
\* extracted, and left the directory behind
C20_Witness ==
    /\ libritts_r.called
    /\ libritts_r.download
    /\ libritts_r.before.path = "absent"
    /\ libritts_r.before.archive = "absent"
    /\ libritts_r.downloaded
    /\ libritts_r.extracted
    /\ IsDir(fs.path)

\* C30 as claimed: for every allowed dataset type the url LIBRITTS_R builds
\* has an entry in _CHECKSUMS, so every download the constructor starts is
\* checked against a known checksum: hash_prefix is never None.
C30_EveryDownloadChecked ==
    libritts_r.called =>
        /\ libritts_r.type \in DatasetTypes
        /\ Checksum(libritts_r.type) # "None"
        /\ libritts_r.downloaded => libritts_r.hash_prefix # "None"

---------------------------------------------------------------------------
(* Properties of load_libritts_item *)

\* C24 as claimed: successive calls of load_libritts_item for the same
\* fileid return the same original_text and the same normalized_text,
\* whether or not the two text files existed before the first call: the
\* call that follows a call which returned gives back what it returned.
C24_RepeatedLoadsAgree ==
    (item.called /\ item.error = "none") =>
        LoadLibrittsItem(transcripts).result = item

---------------------------------------------------------------------------
(* Properties of LibriTTSDatasetAcoustic.__getitem__ *)

\* the call of the worker has started and has not ended
Running(w) == workers[w].pc \in {"lookup", "preprocess", "saving"}

\* C25 as claimed: __getitem__(idx) eventually returns whenever at least
\* one dataset row preprocesses successfully, the failing rows being
\* replaced by random indices under fairness; what it returns is the result
\* of a successful preprocessing, never None; and when no row preprocesses
\* successfully it never returns.
C25_EventuallyReturns ==
    /\ (Running(1) /\ acoustic_dataset.ok # {})
           ~> (workers[1].pc = "returned")
    /\ [](workers[1].pc = "returned" =>
             /\ workers[1].result.kind = "sample"
             /\ workers[1].result.id \in acoustic_dataset.ok)
    /\ [](acoustic_dataset.ok = {} => workers[1].pc # "returned")

\* C26: every entry memory_cache[k] and every cache file <k>.pt holds the
\* sample preprocessed from dataset row k itself; when row idx fails
\* preprocessing and a random row r is returned in its place, the sample
\* is stored only under r and nothing is stored under idx.
C26_CachedUnderOwnRow ==
    \A w \in Workers :
        LET me == workers[w]
        IN  /\ \A k \in DOMAIN me.memory_cache :
                  me.memory_cache[k] = Sampled(k)
            /\ \A k \in DOMAIN cache_dir : cache_dir[k].data = Sampled(k)
            /\ \A k \in Rows(acoustic_dataset.len) \ acoustic_dataset.ok :
                  k \notin DOMAIN me.memory_cache /\ k \notin DOMAIN cache_dir
            /\ (me.pc = "returned" /\ acoustic_dataset.mem_cache
                   /\ ~acoustic_dataset.cache) =>
                  me.result.id \in DOMAIN me.memory_cache
            /\ (me.pc = "returned" /\ acoustic_dataset.cache) =>
                  me.result.id \in DOMAIN cache_dir

\* a call for a failing row idx that returned another row r, with both
\* caches on: the sample is in the memory cache and in the cache file of r
C26_Witness ==
    /\ workers[1].pc = "returned"
    /\ workers[1].requested \notin acoustic_dataset.ok
    /\ workers[1].result.id # workers[1].requested
    /\ workers[1].result.id \in DOMAIN workers[1].memory_cache
    /\ workers[1].result.id \in DOMAIN cache_dir
    /\ cache_dir[workers[1].result.id].complete
    /\ workers[1].requested \notin DOMAIN cache_dir

C28_LoadsOnlyCompleteFiles ==
    \A w \in Workers : workers[w].result.kind # "LoadError"

=============================================================================
